---- MODULE Spec2Model ----
(***************************************************************************)
(* Model of HolomorphicMotions.py: the escape-time kernels mandelbrot and  *)
(* julia_boundary, the grid samplers mandelbrot_set and                    *)
(* julia_set_boundary, and the event handlers of MandelbrotJuliaApp.       *)
(*                                                                         *)
(* Numbers: the program computes with IEEE doubles.  The model computes    *)
(* with exact rationals (numerator / positive denominator, in lowest       *)
(* terms), so z*z + c and abs(z) > 2 are the exact values; rounding of     *)
(* doubles is outside the model.  All sampled inputs are small dyadic or   *)
(* small-denominator rationals.                                            *)
(***************************************************************************)
EXTENDS Integers, Sequences, FiniteSets

VARIABLES
    \* harness of the two kernels (pure functions)
    kc, kz, kmax, mret, jret,
    \* one call of a grid sampler
    req, gpc, r1, r2, img, col, writes,
    \* MandelbrotJuliaApp
    self_c, ax1img, ax2img, ax2title, canvas, pc, handled, last_c, raised

kvars == <<kc, kz, kmax, mret, jret>>
gvars == <<req, gpc, r1, r2, img, col, writes>>
avars == <<self_c, ax1img, ax2img, ax2title, canvas, pc, handled, last_c, raised>>
vars == <<kvars, gvars, avars>>

----------------------------------------------------------------------------
(* Bounds of the model *)

\* iteration budgets passed to the kernels range over 0..MaxIter
MaxIter == 3
\* sampled kernel inputs have real and imaginary parts k / CoordDen, |k| <= MaxCoord
MaxCoord == 4
CoordDen == 2
\* widths and heights of a grid request range over 0..MaxDim
MaxDim == 3
\* the application's resolution (800 x 800 in the program) and its iteration
\* budgets (1000 for the Julia map, 5000 for the Mandelbrot map), scaled down
Resolution == 3
JuliaBudget == 3
MandelbrotBudget == 3

\* the escape radius of abs(z) > 2
EscapeRadius == 2

----------------------------------------------------------------------------
(* Exact rational arithmetic standing for float arithmetic *)

Abs(n) == IF n < 0 THEN -n ELSE n

RECURSIVE GCD(_, _)
GCD(a, b) == IF b = 0 THEN a ELSE GCD(b, a % b)

\* the rational n / d (d # 0), in lowest terms with a positive denominator
Rat(n, d) ==
    LET s == IF d < 0 THEN -1 ELSE 1
        g == GCD(Abs(n), Abs(d))
    IN  [n |-> (s * n) \div g, d |-> (s * d) \div g]

RInt(n) == [n |-> n, d |-> 1]

RAdd(a, b) ==
    LET l == (a.d \div GCD(a.d, b.d)) * b.d
    IN  Rat(a.n * (l \div a.d) + b.n * (l \div b.d), l)

RNeg(a) == [n |-> -a.n, d |-> a.d]
RSub(a, b) == RAdd(a, RNeg(b))
RMul(a, b) == Rat(a.n * b.n, a.d * b.d)
RDivInt(a, k) == Rat(a.n, a.d * k)
RLess(a, b) == a.n * b.d < b.n * a.d

\* complex(re, im)
complex(re, im) == [re |-> re, im |-> im]
CZero == complex(RInt(0), RInt(0))

\* z * z + c
SquarePlus(z, c) ==
    complex(RAdd(RSub(RMul(z.re, z.re), RMul(z.im, z.im)), c.re),
            RAdd(RMul(RInt(2), RMul(z.re, z.im)), c.im))

\* abs(z) * abs(z)
AbsSquared(z) == RAdd(RMul(z.re, z.re), RMul(z.im, z.im))

\* abs(z) >= 2: the comparison a kernel would make with the radius included
AbsGeRadius(z) == ~RLess(AbsSquared(z), RInt(EscapeRadius * EscapeRadius))

\* abs(z) > 2
AbsGtRadius(z) == RLess(RInt(EscapeRadius * EscapeRadius), AbsSquared(z))

----------------------------------------------------------------------------
(* The kernels *)

\* a kernel that starts the orbit at z = c instead of z = 0
MandelbrotStartAtC(c) == c

\* the start value z = 0 of mandelbrot
MandelbrotStart(c) == CZero

\* for n in range(n, max_iter): if abs(z) > 2: return n; z = z * z + c
\* and, the range exhausted, the value `exhausted`
RECURSIVE EscapeLoop(_, _, _, _, _)
EscapeLoop(c, z, n, max_iter, exhausted) ==
    IF n >= max_iter THEN exhausted
    ELSE IF AbsGtRadius(z) THEN n
    ELSE EscapeLoop(c, SquarePlus(z, c), n + 1, max_iter, exhausted)

\* a mandelbrot that returns the last loop index when the range is exhausted
MandelbrotReturnsLastN(c, max_iter) ==
    EscapeLoop(c, CZero, 0, max_iter, max_iter - 1)

mandelbrot(c, max_iter) ==
    EscapeLoop(c, MandelbrotStart(c), 0, max_iter, max_iter)

\* a julia_boundary that reports 0 for an orbit that does not escape
JuliaBoundaryReturnsZero(c, z, max_iter) ==
    EscapeLoop(c, z, 0, max_iter, 0)

julia_boundary(c, z, max_iter) ==
    EscapeLoop(c, z, 0, max_iter, -1)

----------------------------------------------------------------------------
(* Harness of the kernels: the inputs are drawn in the initial state, the  *)
(* two actions call the kernels and record what they return.               *)

Coords == {Rat(k, CoordDen) : k \in -MaxCoord..MaxCoord}
Points == {complex(x, y) : x \in Coords, y \in Coords}
Budgets == 0..MaxIter

GridIdle ==
    /\ req = <<>> /\ gpc = "off" /\ r1 = <<>> /\ r2 = <<>>
    /\ img = <<>> /\ col = <<>> /\ writes = <<>>

AppIdle ==
    /\ self_c = CZero /\ ax1img = <<>> /\ ax2img = <<>> /\ ax2title = CZero
    /\ canvas = <<>> /\ pc = "off" /\ handled = <<>> /\ last_c = CZero
    /\ raised = FALSE

KernelIdle ==
    /\ kc = CZero /\ kz = CZero /\ kmax = 0 /\ mret = <<>> /\ jret = <<>>

InitKernel ==
    /\ kc \in Points
    /\ kz \in Points
    /\ kmax \in Budgets
    /\ mret = <<>>
    /\ jret = <<>>
    /\ GridIdle
    /\ AppIdle

CallMandelbrot ==
    /\ mret = <<>>
    /\ mret' = <<mandelbrot(kc, kmax)>>
    /\ UNCHANGED <<kc, kz, kmax, jret, gvars, avars>>

CallJuliaBoundary ==
    /\ jret = <<>>
    /\ jret' = <<julia_boundary(kc, kz, kmax)>>
    /\ UNCHANGED <<kc, kz, kmax, mret, gvars, avars>>

NextKernel == CallMandelbrot \/ CallJuliaBoundary

SpecKernel == InitKernel /\ [][NextKernel]_vars

----------------------------------------------------------------------------
(* The grid samplers *)

\* np.linspace with the endpoint left out: start + j * (stop - start) / num
LinspaceNoEndpoint(start, stop, num) ==
    [j \in 0..(num - 1) |-> RAdd(start, RDivInt(RMul(RInt(j), RSub(stop, start)), num))]

\* np.linspace(start, stop, num): num samples, both endpoints included; one
\* sample is start alone, no sample is the empty array
linspace(start, stop, num) ==
    [j \in 0..(num - 1) |->
        IF num = 1 THEN start
        ELSE RAdd(start, RDivInt(RMul(RInt(j), RSub(stop, start)), num - 1))]

\* content of a cell of np.empty that was never assigned; no uint32 value
Unassigned == -1

\* np.empty((height, width)): indexed img[i, j], 0 <= i < height, 0 <= j < width
Cells(width, height) == (0..(height - 1)) \X (0..(width - 1))

\* c = complex(r1[j], r2[i]); img[i, j] = mandelbrot(c, max_iter)
MandelbrotCell(x, y, max_iter) == mandelbrot(complex(x, y), max_iter)

\* z = complex(r1[j], r2[i]); result = julia_boundary(c, z, max_iter);
\* img[i, j] = result if result >= 0 else 0
JuliaCell(c, x, y, max_iter) ==
    LET result == julia_boundary(c, complex(x, y), max_iter)
    IN  IF result >= 0 THEN result ELSE 0

\* the whole of mandelbrot_set, the loops run to their end
mandelbrot_set(xmin, xmax, ymin, ymax, width, height, max_iter) ==
    LET a1 == linspace(xmin, xmax, width)
        a2 == linspace(ymin, ymax, height)
    IN  [r1 |-> a1, r2 |-> a2,
         img |-> [p \in Cells(width, height) |->
                    MandelbrotCell(a1[p[2]], a2[p[1]], max_iter)]]

\* the whole of julia_set_boundary, the loops run to their end
julia_set_boundary(c, xmin, xmax, ymin, ymax, width, height, max_iter) ==
    LET a1 == linspace(xmin, xmax, width)
        a2 == linspace(ymin, ymax, height)
    IN  [r1 |-> a1, r2 |-> a2,
         img |-> [p \in Cells(width, height) |->
                    JuliaCell(c, a1[p[2]], a2[p[1]], max_iter)]]

----------------------------------------------------------------------------
(* One call of a grid sampler, its parallel loop step by step.  The outer  *)
(* prange(height) hands the rows to workers that run in any order; the     *)
(* inner prange(width), nested in a parallel loop, runs as a plain range   *)
(* inside the worker of its row.                                           *)

\* the bounds <<min, max>> of a request along each axis; those with
\* min >= max are invalid regions
XRanges == {<<RInt(-2), RInt(2)>>, <<RInt(2), RInt(-2)>>, <<RInt(2), RInt(2)>>}
YRanges == {<<RInt(-2), RInt(2)>>, <<RInt(0), RInt(2)>>, <<RInt(2), RInt(-2)>>}
\* the fixed parameter c of a Julia request
JuliaParams == {CZero, complex(RInt(-1), RInt(0))}
\* widths and heights; a negative one fails inside np.empty and is left out
Dims == 0..MaxDim

Request(mode, c, xr, yr, width, height, max_iter) ==
    [mode |-> mode, c |-> c, xmin |-> xr[1], xmax |-> xr[2],
     ymin |-> yr[1], ymax |-> yr[2],
     width |-> width, height |-> height, max_iter |-> max_iter]

Requests ==
    {Request("julia", c, xr, yr, w, h, m) :
        c \in JuliaParams, xr \in XRanges, yr \in YRanges,
        w \in Dims, h \in Dims, m \in Budgets}
    \cup
    {Request("mandelbrot", CZero, xr, yr, w, h, m) :
        xr \in XRanges, yr \in YRanges, w \in Dims, h \in Dims, m \in Budgets}

InitGrid ==
    /\ req \in Requests
    /\ gpc = "call"
    /\ r1 = <<>> /\ r2 = <<>> /\ img = <<>> /\ col = <<>> /\ writes = <<>>
    /\ KernelIdle
    /\ AppIdle

\* r1 = np.linspace(...); r2 = np.linspace(...); img = np.empty(...)
Allocate ==
    /\ gpc = "call"
    /\ r1' = linspace(req.xmin, req.xmax, req.width)
    /\ r2' = linspace(req.ymin, req.ymax, req.height)
    /\ img' = [p \in Cells(req.width, req.height) |-> Unassigned]
    /\ col' = [i \in 0..(req.height - 1) |-> 0]
    /\ writes' = [p \in Cells(req.width, req.height) |-> <<>>]
    /\ gpc' = "running"
    /\ UNCHANGED <<req, kvars, avars>>

\* a worker that stores every result of its row in column 0
FirstColumnIndex(i, j) == <<i, 0>>

\* the cell img[i, j] that iteration (i, j) assigns
CellIndex(i, j) == <<i, j>>

\* the value iteration (i, j) computes
CellValue(i, j) ==
    IF req.mode = "mandelbrot"
    THEN MandelbrotCell(r1[j], r2[i], req.max_iter)
    ELSE JuliaCell(req.c, r1[j], r2[i], req.max_iter)

\* the worker of row i runs its next iteration of the inner loop
RowStep(i) ==
    /\ gpc = "running"
    /\ col[i] < req.width
    /\ LET j == col[i]
           p == CellIndex(i, j)
       IN  /\ img' = [img EXCEPT ![p] = CellValue(i, j)]
           /\ writes' = [writes EXCEPT ![p] = Append(@, i)]
    /\ col' = [col EXCEPT ![i] = @ + 1]
    /\ UNCHANGED <<req, gpc, r1, r2, kvars, avars>>

\* every row is done: return (r1, r2, img)
Return ==
    /\ gpc = "running"
    /\ \A i \in 0..(req.height - 1) : col[i] = req.width
    /\ gpc' = "returned"
    /\ UNCHANGED <<req, r1, r2, img, col, writes, kvars, avars>>

NextGrid ==
    \/ Allocate
    \/ \E i \in 0..(req.height - 1) : RowStep(i)
    \/ Return

SpecGrid == InitGrid /\ [][NextGrid]_vars

----------------------------------------------------------------------------
(* MandelbrotJuliaApp.  Tk's mainloop runs one callback at a time on one   *)
(* thread: a handler that has started runs update_julia and canvas.draw to *)
(* their end before the next event is delivered.                           *)

self_width == Resolution
self_height == Resolution
self_max_iter == JuliaBudget
self_max_iter_mandel == MandelbrotBudget
self_xmin == Rat(-5, 2)
self_xmax == Rat(3, 2)
self_ymin == RInt(-2)
self_ymax == RInt(2)
extent == RInt(2)

\* a Julia region that follows the parameter: center_x, center_y = c
JuliaCenterAtC(c) == c

\* center_x, center_y = 0, 0
JuliaCenter(c) == CZero

\* the img of update_mandelbrot
MandelbrotImage ==
    mandelbrot_set(self_xmin, self_xmax, self_ymin, self_ymax,
                   self_width, self_height, self_max_iter_mandel).img

\* the img of update_julia for the parameter c
JuliaImage(c) ==
    LET center == JuliaCenter(c)
    IN  julia_set_boundary(c, RSub(center.re, extent), RAdd(center.re, extent),
                           RSub(center.im, extent), RAdd(center.im, extent),
                           self_width, self_height, self_max_iter).img

\* what canvas.draw() puts on the screen: the images and the title of the axes
Drawn(left, right, title) == [ax1 |-> left, ax2 |-> right, title |-> title]

\* event.xdata, event.ydata: <<>> is None, <<x>> a plane coordinate
EventX == {RInt(-2), RInt(0)}
EventY == {RInt(0), RInt(1)}
Events ==
    [kind : {"button_press_event", "motion_notify_event"},
     inaxes : {"ax1", "ax2"},
     xdata : {<<x>> : x \in EventX}, ydata : {<<y>> : y \in EventY}]
    \cup
    [kind : {"button_press_event", "motion_notify_event"},
     inaxes : {"ax1", "ax2", "None"},
     xdata : {<<>>}, ydata : {<<>>}]

\* the event lies in the Mandelbrot axes and carries a plane coordinate
InRegion(event) ==
    event.inaxes = "ax1" /\ event.xdata # <<>> /\ event.ydata # <<>>

InitApp ==
    /\ self_c = CZero
    /\ ax1img = MandelbrotImage
    /\ ax2img = JuliaImage(CZero)
    /\ ax2title = CZero
    /\ canvas = Drawn(MandelbrotImage, JuliaImage(CZero), CZero)
    /\ pc = "idle"
    /\ handled = <<>>
    /\ last_c = CZero
    /\ raised = FALSE
    /\ KernelIdle
    /\ GridIdle

\* the bookkeeping of a delivered event: which event was the last one, and
\* the coordinate of the last one inside the input region
Delivered(event) ==
    /\ handled' = <<event>>
    /\ last_c' = IF InRegion(event)
                 THEN complex(event.xdata[1], event.ydata[1]) ELSE last_c

\* onclick up to its call of update_julia; complex(None, None) raises TypeError
onclick(event) ==
    /\ pc = "idle"
    /\ event.kind = "button_press_event"
    /\ Delivered(event)
    /\ IF event.inaxes = "ax1"
       THEN IF event.xdata = <<>> \/ event.ydata = <<>>
            THEN /\ raised' = TRUE
                 /\ UNCHANGED <<self_c, pc>>
            ELSE /\ self_c' = complex(event.xdata[1], event.ydata[1])
                 /\ pc' = "update_julia"
                 /\ UNCHANGED raised
       ELSE UNCHANGED <<self_c, pc, raised>>
    /\ UNCHANGED <<ax1img, ax2img, ax2title, canvas, kvars, gvars>>

\* onmotion up to its call of update_julia
onmotion(event) ==
    /\ pc = "idle"
    /\ event.kind = "motion_notify_event"
    /\ Delivered(event)
    /\ IF event.inaxes = "ax1" /\ event.xdata # <<>> /\ event.ydata # <<>>
       THEN /\ self_c' = complex(event.xdata[1], event.ydata[1])
            /\ pc' = "update_julia"
       ELSE UNCHANGED <<self_c, pc>>
    /\ UNCHANGED <<raised, ax1img, ax2img, ax2title, canvas, kvars, gvars>>

\* update_julia, called by the handler
update_julia ==
    /\ pc = "update_julia"
    /\ ax2img' = JuliaImage(self_c)
    /\ ax2title' = self_c
    /\ pc' = "draw"
    /\ UNCHANGED <<self_c, ax1img, canvas, handled, last_c, raised, kvars, gvars>>

\* self.canvas.draw(), the last statement of the handler
canvas_draw ==
    /\ pc = "draw"
    /\ canvas' = Drawn(ax1img, ax2img, ax2title)
    /\ pc' = "idle"
    /\ UNCHANGED <<self_c, ax1img, ax2img, ax2title, handled, last_c, raised,
                   kvars, gvars>>

NextApp ==
    \/ \E event \in Events : onclick(event)
    \/ \E event \in Events : onmotion(event)
    \/ update_julia
    \/ canvas_draw

SpecApp == InitApp /\ [][NextApp]_vars

----------------------------------------------------------------------------
(* Properties of the kernels, checked under SpecKernel *)

\* the n-th iterate z_n of the orbit z_0 = z0, z_{k+1} = z_k^2 + c
RECURSIVE Orbit(_, _, _)
Orbit(z0, c, n) == IF n = 0 THEN z0 ELSE SquarePlus(Orbit(z0, c, n - 1), c)

\* |z| > 2, stated on the parts: re^2 + im^2 > 4
ExceedsTwo(z) == RLess(RInt(4), RAdd(RMul(z.re, z.re), RMul(z.im, z.im)))

\* no iterate z_n with n < max_iter has magnitude > 2
NeverEscapes(z0, c, max_iter) ==
    \A n \in 0..(max_iter - 1) : ~ExceedsTwo(Orbit(z0, c, n))

\* r is the smallest n in [0, max_iter) with |z_n| > 2
IsLeastEscape(z0, c, max_iter, r) ==
    /\ r \in 0..(max_iter - 1)
    /\ \A k \in 0..(r - 1) : ~ExceedsTwo(Orbit(z0, c, k))
    /\ ExceedsTwo(Orbit(z0, c, r))

\* r is the least escape index, or nonEscape exactly when there is none
ReturnsLeastEscape(z0, c, max_iter, r, nonEscape) ==
    /\ NeverEscapes(z0, c, max_iter) => r = nonEscape
    /\ ~NeverEscapes(z0, c, max_iter) =>
          r # nonEscape /\ IsLeastEscape(z0, c, max_iter, r)

\* C1: mandelbrot (z0 = 0) and julia_boundary (the given z0) return the
\* smallest n < max_iter whose iterate z_n has magnitude > 2, and return the
\* non-escape value (max_iter, respectively -1) exactly when there is none.
C1_LeastEscapeIndex ==
    /\ mret # <<>> => ReturnsLeastEscape(CZero, kc, kmax, mret[1], kmax)
    /\ jret # <<>> => ReturnsLeastEscape(kz, kc, kmax, jret[1], -1)

\* both kernels have returned; the Julia orbit escaped at the last index the
\* budget allows and the orbit of 0 did not escape
C1_Witness ==
    /\ mret # <<>> /\ jret # <<>>
    /\ kmax = MaxIter
    /\ jret[1] = MaxIter - 1
    /\ mret[1] = kmax

Min(a, b) == IF a < b THEN a ELSE b

\* C2 as stated: for |c| > 2, mandelbrot(c, max_iter) returns 0.
C2_Original ==
    (mret # <<>> /\ ExceedsTwo(kc)) => mret[1] = 0

\* C2 as amended: for |c| > 2, mandelbrot(c, max_iter) returns
\* min(1, max_iter): the check of iteration 0 sees z = 0, the check of
\* iteration 1 sees z = c.
C2_EscapesAtIterationOne ==
    (mret # <<>> /\ ExceedsTwo(kc)) => mret[1] = Min(1, kmax)

\* mandelbrot has returned for a c with |c| > 2 and a budget of at least 2
C2_Witness ==
    /\ mret # <<>> /\ ExceedsTwo(kc) /\ kmax >= 2 /\ mret[1] = 1

\* C8: mandelbrot((0,0), max_iter) returns max_iter, for every max_iter >= 0.
C8_OriginNeverEscapes ==
    (mret # <<>> /\ kc = CZero) => mret[1] = kmax

\* mandelbrot has returned for c = (0,0) with the largest budget
C8_Witness ==
    mret # <<>> /\ kc = CZero /\ kmax = MaxIter /\ mret[1] = MaxIter

\* C10: mandelbrot(c, max_iter) equals julia_boundary(c, 0, max_iter)
\* whenever the latter is non-negative, and mandelbrot(c, max_iter) is
\* max_iter exactly when julia_boundary(c, 0, max_iter) is -1.
C10_OneEvaluator ==
    (mret # <<>> /\ jret # <<>> /\ kz = CZero) =>
        /\ jret[1] >= 0 => mret[1] = jret[1]
        /\ (mret[1] = kmax) <=> (jret[1] = -1)

\* both kernels have returned for the same c and z = 0, with an escape at the
\* last index the budget allows
C10_Witness ==
    /\ mret # <<>> /\ jret # <<>> /\ kz = CZero
    /\ jret[1] = MaxIter - 1 /\ mret[1] = MaxIter - 1

\* both kernels have returned for z = 0 and an orbit that does not escape
C10_WitnessNoEscape ==
    /\ mret # <<>> /\ jret # <<>> /\ kz = CZero
    /\ jret[1] = -1 /\ mret[1] = kmax /\ kmax = MaxIter

----------------------------------------------------------------------------
(* Properties of the grid samplers, checked under SpecGrid *)

\* the sample xs[j] = xmin + j * (xmax - xmin) / (width - 1) of an axis; a
\* single sample is the lower bound
AxisSample(lo, hi, num, j) ==
    IF num = 1 THEN lo
    ELSE RAdd(lo, Rat((hi.n * lo.d - lo.n * hi.d) * j, lo.d * hi.d * (num - 1)))

\* the sample point (xs[j], ys[i]) of cell (i, j) of the request
SamplePoint(i, j) ==
    complex(AxisSample(req.xmin, req.xmax, req.width, j),
            AxisSample(req.ymin, req.ymax, req.height, i))

\* the escape count of the orbit, or nonEscape when there is none below max_iter
EscapeCount(z0, c, max_iter, nonEscape) ==
    IF NeverEscapes(z0, c, max_iter) THEN nonEscape
    ELSE CHOOSE r \in 0..(max_iter - 1) : IsLeastEscape(z0, c, max_iter, r)

\* what a call with this request stores in cell (i, j): the escape count of
\* the sample point, a Julia cell without escape holding 0
ExpectedCell(i, j) ==
    IF req.mode = "mandelbrot"
    THEN EscapeCount(CZero, SamplePoint(i, j), req.max_iter, req.max_iter)
    ELSE EscapeCount(SamplePoint(i, j), req.c, req.max_iter, 0)

Started == gpc \in {"running", "returned"}

C6_WitnessInterleaved ==
    /\ gpc = "running"
    /\ req.height >= 2 /\ req.width >= 2
    /\ col[0] = 1 /\ col[1] = 2

ValidRequest ==
    /\ req.width > 0 /\ req.height > 0
    /\ RLess(req.xmin, req.xmax) /\ RLess(req.ymin, req.ymax)

\* C3: in a returned Julia map of a valid request no cell whose orbit never exceeded magnitude 2
\* within max_iter holds the value of a cell whose start point escaped at
\* iteration 0.
C3_NonEscapeDistinct ==
    (gpc = "returned" /\ req.mode = "julia" /\ req.max_iter >= 1 /\ ValidRequest) =>
        \A p, q \in Cells(req.width, req.height) :
            (/\ NeverEscapes(SamplePoint(p[1], p[2]), req.c, req.max_iter)
             /\ ExceedsTwo(SamplePoint(q[1], q[2])))
            => img[p] # img[q]

\* C4: a request with width <= 0, height <= 0, xmin >= xmax or ymin >= ymax
\* is rejected before any pixel is evaluated and never returns a map.
C4_InvalidRequestRejected ==
    (Started /\ ~ValidRequest) =>
        /\ gpc # "returned"
        /\ \A p \in Cells(req.width, req.height) : writes[p] = <<>>

----------------------------------------------------------------------------
(* Properties of the application, checked under SpecApp *)

\* the Julia map of parameter c over [-2,2] x [-2,2]: cell (i, j) holds the
\* escape count of the sample point, 0 when the orbit does not escape
FixedRegionJuliaMap(c) ==
    [p \in Cells(self_width, self_height) |->
        EscapeCount(complex(AxisSample(RInt(-2), RInt(2), self_width, p[2]),
                            AxisSample(RInt(-2), RInt(2), self_height, p[1])),
                    c, self_max_iter, 0)]

\* the event of this step lies outside the Mandelbrot axes or carries no
\* plane coordinate
IgnorableEventStep ==
    /\ pc = "idle"
    /\ handled' # <<>>
    /\ ~InRegion(handled'[1])
    /\ handled' # handled

\* C5: a pointer-down or pointer-move event outside the Mandelbrot axes, or
\* without plane coordinate, leaves c and the displayed Julia map unchanged,
\* starts no Julia recomputation and raises no error.
C5_OutsideEventIgnored ==
    [][IgnorableEventStep =>
          /\ self_c' = self_c
          /\ canvas' = canvas
          /\ ax2img' = ax2img
          /\ pc' = "idle"
          /\ raised' = raised]_vars

====
